---- MODULE Spec2Model ----
(***************************************************************************)
(* A model of the crypto news bot of src/main.py: the listing fetchers of  *)
(* the two sources, the posted_news store with its durable file, and the   *)
(* ingestion cycle check_and_post_news as it is run at startup, by the    *)
(* scheduled task and by the /checknews command handler.                   *)
(*                                                                         *)
(* Python strings are TLA+ strings (TLC evaluates Len, SubSeq, Tail and \o *)
(* on them).  None and the empty string are both the empty string: the     *)
(* code only ever tests them for truth.  hashlib.md5 is taken to be        *)
(* injective on the strings hashed, so a fingerprint is the string hashed. *)
(***************************************************************************)
EXTENDS Integers, Sequences, FiniteSets, TLC

(***************************************************************************)
(* Python string and list helpers.                                         *)
(***************************************************************************)
Min(a, b) == IF a <= b THEN a ELSE b

\* s[:n]
Take(s, n) == SubSeq(s, 1, Min(n, Len(s)))

\* s.startswith(p)
StartsWith(s, p) == Len(s) >= Len(p) /\ SubSeq(s, 1, Len(p)) = p

\* sub in s
Contains(s, sub) ==
    \E i \in 1..(Len(s) - Len(sub) + 1) : SubSeq(s, i, i + Len(sub) - 1) = sub

LowerChar(c) ==
    CASE c = "A" -> "a" [] c = "B" -> "b" [] c = "C" -> "c" [] c = "D" -> "d"
      [] c = "E" -> "e" [] c = "F" -> "f" [] c = "G" -> "g" [] c = "H" -> "h"
      [] c = "I" -> "i" [] c = "J" -> "j" [] c = "K" -> "k" [] c = "L" -> "l"
      [] c = "M" -> "m" [] c = "N" -> "n" [] c = "O" -> "o" [] c = "P" -> "p"
      [] c = "Q" -> "q" [] c = "R" -> "r" [] c = "S" -> "s" [] c = "T" -> "t"
      [] c = "U" -> "u" [] c = "V" -> "v" [] c = "W" -> "w" [] c = "X" -> "x"
      [] c = "Y" -> "y" [] c = "Z" -> "z" [] OTHER -> c

\* s.lower()
RECURSIVE Lower(_)
Lower(s) == IF s = "" THEN "" ELSE LowerChar(SubSeq(s, 1, 1)) \o Lower(Tail(s))

IsSpace(c) == c \in {" ", "\n", "\t"}

RECURSIVE LStrip(_)
LStrip(s) ==
    IF s # "" /\ IsSpace(SubSeq(s, 1, 1)) THEN LStrip(Tail(s)) ELSE s

RECURSIVE RStrip(_)
RStrip(s) ==
    IF s # "" /\ IsSpace(SubSeq(s, Len(s), Len(s)))
    THEN RStrip(SubSeq(s, 1, Len(s) - 1))
    ELSE s

\* s.strip()
Strip(s) == RStrip(LStrip(s))

(***************************************************************************)
(* The listing pages.  A page is what BeautifulSoup's selectors return on  *)
(* it: articles, the article containers (each with the text of the title   *)
(* element and the href of the link element the selector cascades settle   *)
(* on, "" when there is none); anchors, the document's anchors matching    *)
(* the topical link pattern (href and text); containers, for CoinTelegraph,*)
(* the anchors matching the pattern inside each main list container.       *)
(* A response is a page with status 200, another status, or an exception   *)
(* raised by the request.                                                  *)
(***************************************************************************)
CoinDeskBase == "https://www.coindesk.com"
CoinTelegraphBase == "https://cointelegraph.com"

CoinDeskPrimaryURL == "https://www.coindesk.com/tag/bitcoin/"
CoinDeskSecondaryURL == "https://www.coindesk.com/markets/"
CoinTelegraphPrimaryURL == "https://cointelegraph.com/tags/bitcoin"
CoinTelegraphSecondaryURL == "https://cointelegraph.com/"

ArticleLimit == 10
LinkLimit == 15
MinTitleArticle == 10
MinTitleLink == 15
MaxPostsPerCycle == 5
RetentionDays == 7

SkipPhrases == {"contact", "about us", "advertise", "sign up", "log in"}
Keywords == {"bitcoin", "btc", "crypto"}

\* "Make sure link is absolute"
Absolute(href, base) ==
    IF href # "" /\ ~StartsWith(href, "http") THEN base \o href ELSE href

NewsItem(title, link, source) ==
    [title |-> title, link |-> link, source |-> source]

\* the article loop of a topical page: for article in articles[:10]
ArticleAccepted(n) ==
    n.title # "" /\ n.link # "" /\ Len(n.title) > MinTitleArticle

ArticleItems(articles, base, source) ==
    LET arts == Take(articles, ArticleLimit)
        cand == [i \in 1..Len(arts) |->
                    NewsItem(Strip(arts[i].title),
                             Absolute(arts[i].href, base), source)]
    IN SelectSeq(cand, ArticleAccepted)

\* the article loop of a secondary page: the title must also hold a keyword
KeywordAccepted(n) ==
    /\ ArticleAccepted(n)
    /\ \E k \in Keywords : Contains(Lower(n.title), k)

SecondaryItems(articles, base, source) ==
    LET arts == Take(articles, ArticleLimit)
        cand == [i \in 1..Len(arts) |->
                    NewsItem(Strip(arts[i].title),
                             Absolute(arts[i].href, base), source)]
    IN SelectSeq(cand, KeywordAccepted)

\* the link-harvesting loop: for link in links[:15]
LinkAccepted(n) ==
    /\ n.title # "" /\ n.link # "" /\ Len(n.title) > MinTitleLink
    /\ ~\E s \in SkipPhrases : Contains(Lower(n.title), s)

LinkItems(links, tagPath, base, source) ==
    LET ls == Take(links, LinkLimit)
        ok(a) == a.href # "" /\ ~Contains(a.href, tagPath)
                 /\ ~Contains(a.href, "#")
        kept == SelectSeq(ls, ok)
        cand == [i \in 1..Len(kept) |->
                    NewsItem(Strip(kept[i].text),
                             Absolute(kept[i].href, base), source)]
    IN SelectSeq(cand, LinkAccepted)

RECURSIVE ContainerItems(_, _, _, _)
ContainerItems(containers, tagPath, base, source) ==
    IF containers = <<>> THEN <<>>
    ELSE LinkItems(Head(containers), tagPath, base, source)
         \o ContainerItems(Tail(containers), tagPath, base, source)

\* the 200 branch of the tag page of CoinDesk
CoinDeskPrimaryItems(page) ==
    (IF page.articles = <<>>
     THEN LinkItems(page.anchors, "/tag/", CoinDeskBase, "CoinDesk")
     ELSE <<>>)
    \o ArticleItems(page.articles, CoinDeskBase, "CoinDesk")

\* the 200 branch of the tag page of CoinTelegraph
CoinTelegraphPrimaryItems(page) ==
    (IF page.articles = <<>>
     THEN ContainerItems(page.containers, "/tags/", CoinTelegraphBase,
                         "CoinTelegraph")
     ELSE <<>>)
    \o ArticleItems(page.articles, CoinTelegraphBase, "CoinTelegraph")

(***************************************************************************)
(* fetch_coindesk_news and fetch_cointelegraph_news on the responses r1    *)
(* (to the primary URL) and r2 (to the secondary URL, if it is requested): *)
(* the items returned and the URLs requested, in order.  One try block     *)
(* holds both requests, so an exception of the first ends the fetch.       *)
(***************************************************************************)
SecondaryFetch(first, r2, url2, base, source) ==
    [items |-> IF r2.kind = "ok"
               THEN SecondaryItems(r2.page.articles, base, source)
               ELSE <<>>,
     requests |-> first \o <<url2>>]

FetchCoinDesk(r1, r2) ==
    LET news_items == IF r1.kind = "ok" THEN CoinDeskPrimaryItems(r1.page)
                      ELSE <<>>
        first == <<CoinDeskPrimaryURL>>
    IN IF r1.kind = "raise" THEN [items |-> <<>>, requests |-> first]
       ELSE IF news_items = <<>>
       THEN SecondaryFetch(first, r2, CoinDeskSecondaryURL, CoinDeskBase,
                           "CoinDesk")
       ELSE [items |-> news_items, requests |-> first]

FetchCoinTelegraph(r1, r2) ==
    LET news_items == IF r1.kind = "ok"
                      THEN CoinTelegraphPrimaryItems(r1.page)
                      ELSE <<>>
        first == <<CoinTelegraphPrimaryURL>>
    IN IF r1.kind = "raise" THEN [items |-> <<>>, requests |-> first]
       ELSE IF news_items = <<>> \/ (r1.kind = "status" /\ r1.status = 403)
       THEN SecondaryFetch(first, r2, CoinTelegraphSecondaryURL,
                           CoinTelegraphBase, "CoinTelegraph")
       ELSE [items |-> news_items, requests |-> first]

(***************************************************************************)
(* The dedup store: posted_news maps a fingerprint to                      *)
(* {title, timestamp}; the file holds its JSON text.  A timestamp is the   *)
(* isoformat string of a time, counted in days.                            *)
(*                                                                         *)
(* json.load returns whatever JSON value the file holds.  A value that is  *)
(* not an object is [nonmapping |-> "list"] (the text []) or               *)
(* [nonmapping |-> "number"] (the text 0); an entry that is not an object  *)
(* is [nonrecord |-> "string"]; a timestamp is [iso |-> t], the isoformat  *)
(* string of t, [text |-> s], a string that is no ISO time, or             *)
(* [number |-> n], a JSON number.  No fingerprint is "nonmapping": a       *)
(* fingerprint holds a colon.                                              *)
(***************************************************************************)
EmptyStore == [k \in {} |-> [title |-> "", timestamp |-> [iso |-> 0]]]

NotAMapping(what) == [nonmapping |-> what]
IsMapping(store) == "nonmapping" \notin DOMAIN store

\* datetime.isoformat and datetime.fromisoformat
IsoFormat(t) == [iso |-> t]
FromIsoFormat(v) == v.iso

\* what datetime.fromisoformat raises on the value: nothing on an ISO
\* string, ValueError on another string, TypeError on what is no string
ParseRaises(v) ==
    CASE "iso" \in DOMAIN v -> "none"
      [] "text" \in DOMAIN v -> "ValueError"
      [] OTHER -> "TypeError"

\* the string hashed by is_news_posted and mark_as_posted; md5 is taken
\* to give different digests to different strings
Fingerprint(n) == n.title \o ":" \o n.link

\* an is_news_posted that hashes the link alone
LookupByLink(store, n) == n.link \in DOMAIN store

\* "news_hash in self.posted_news": on a list the hash is not an element;
\* on a number "in" raises TypeError and the handler returns True
IsNewsPosted(store, n) ==
    IF ~({"title", "link"} \subseteq DOMAIN n) THEN TRUE
    ELSE IF IsMapping(store) THEN Fingerprint(n) \in DOMAIN store
    ELSE store.nonmapping # "list"

\* the assignment of mark_as_posted; on a value that is no mapping it
\* raises TypeError, which mark_as_posted logs before it saves
MarkAsPosted(store, n, t) ==
    IF ~IsMapping(store) THEN store
    ELSE [k \in DOMAIN store \cup {Fingerprint(n)} |->
             IF k = Fingerprint(n)
             THEN [title |-> n.title, timestamp |-> IsoFormat(t)]
             ELSE store[k]]

\* "not isinstance(data, dict) or 'timestamp' not in data"
Corrupted(data) ==
    "nonrecord" \in DOMAIN data \/ "timestamp" \notin DOMAIN data

\* an exception leaves the for loop of clean_old_posts for the outer
\* handler: AttributeError of items(), TypeError of fromisoformat
PassAborts(store) ==
    \/ ~IsMapping(store)
    \/ \E k \in DOMAIN store :
          ~Corrupted(store[k]) /\ ParseRaises(store[k].timestamp) = "TypeError"

\* the keys clean_old_posts pops: those collected in to_remove, when the
\* loop over the entries came to its end
ToRemove(store, t) ==
    IF PassAborts(store) THEN {}
    ELSE {k \in DOMAIN store :
             \/ Corrupted(store[k])
             \/ ParseRaises(store[k].timestamp) = "ValueError"
             \/ t - FromIsoFormat(store[k].timestamp) > RetentionDays}

CleanOldPosts(store, t) ==
    [k \in DOMAIN store \ ToRemove(store, t) |-> store[k]]

\* json.dump to the file opened for writing; w is how the write goes
WriteOutcomes == {"ok", "open_fails", "dump_fails"}

\* a save_posted_news that returns without writing
WriteSkipped(store, old, w) == old

SavePostedNews(store, old, w) ==
    CASE w = "ok" -> [kind |-> "json", val |-> store]
      [] w = "open_fails" -> old
      [] OTHER -> [kind |-> "partial", val |-> EmptyStore]

\* a save_posted_news whose failure undoes the mutation
RolledBack(mutated, store, w) == IF w = "ok" THEN mutated ELSE store

\* "except Exception as e: logger.error(...)" in save_posted_news: the
\* caller goes on with the mapping it has mutated
KeptAfterWrite(mutated, store, w) == mutated

\* load_posted_news: json.load, {} when the file is missing or invalid
LoadPostedNews(f) == IF f.kind = "json" THEN f.val ELSE EmptyStore

\* open or read raises what load_posted_news does not catch
\* (PermissionError, IsADirectoryError, UnicodeDecodeError)
LoadRaises(f) == f.kind = "unreadable"

(***************************************************************************)
(* The environment of a run.  Four scenarios: "single", one article on     *)
(* each tag page, "pair", two or three, "many", seven articles over the    *)
(* two tag pages, and "refusing", the pages of "many" and a sink that      *)
(* refuses the first five of them whenever they are sent.  Each request is *)
(* answered by the URL's page, an empty page, a status that is not 200, or *)
(* an exception.                                                           *)
(*                                                                         *)
(* A page holds its article containers, its list containers (.content,     *)
(* main, ...) with the topical anchors inside each, and the topical        *)
(* anchors that lie in no list container.                                  *)
(***************************************************************************)
Article(title, href) == [title |-> title, href |-> href]
Anchor(href, text) == [href |-> href, text |-> text]
Page(articles, anchors, containers) ==
    [articles |-> articles, anchors |-> anchors, containers |-> containers]
EmptyPage == Page(<<>>, <<>>, <<>>)

PairPages ==
    [u \in {CoinDeskPrimaryURL, CoinDeskSecondaryURL,
            CoinTelegraphPrimaryURL, CoinTelegraphSecondaryURL} |->
        CASE u = CoinDeskPrimaryURL ->
               Page(<<Article("Bitcoin tops 100k", "/markets/a1"),
                      Article(" BTC miners expand ", "/markets/a2"),
                      Article("Short one", "/markets/a0")>>, <<>>, <<>>)
          [] u = CoinDeskSecondaryURL ->
               Page(<<Article("Stocks end higher", "/markets/s1"),
                      Article("BTC miners expand", "/markets/a2")>>,
                    <<>>, <<>>)
          [] u = CoinTelegraphPrimaryURL ->
               Page(<<Article("Ether ETF inflows rise", "/news/b1"),
                      Article("Crypto bank opens", "/news/b2")>>, <<>>, <<>>)
          [] OTHER ->
               Page(<<Article("Crypto bank opens",
                              "https://cointelegraph.com/news/b2"),
                      Article("Crypto bank opens", "/news/b2")>>,
                    <<>>, <<>>)]

ManyPages ==
    [u \in {CoinDeskPrimaryURL, CoinDeskSecondaryURL,
            CoinTelegraphPrimaryURL, CoinTelegraphSecondaryURL} |->
        CASE u = CoinDeskPrimaryURL ->
               Page(<<Article("Bitcoin story c1", "/markets/c1"),
                      Article("Bitcoin story c2", "/markets/c2"),
                      Article("Bitcoin story c3", "/markets/c3"),
                      Article("Bitcoin story c4", "/markets/c4")>>,
                    <<>>, <<>>)
          [] u = CoinDeskSecondaryURL ->
               Page(<<Article("Markets story m1", "/markets/m1")>>,
                    <<>>, <<>>)
          [] u = CoinTelegraphPrimaryURL ->
               Page(<<Article("Bitcoin story d1", "/news/d1"),
                      Article("Bitcoin story d2", "/news/d2"),
                      Article("Bitcoin story d3", "/news/d3")>>,
                    <<>>, <<>>)
          [] OTHER ->
               Page(<<Article("Home story h1", "/news/h1")>>, <<>>, <<>>)]

SinglePages ==
    [u \in {CoinDeskPrimaryURL, CoinDeskSecondaryURL,
            CoinTelegraphPrimaryURL, CoinTelegraphSecondaryURL} |->
        CASE u = CoinDeskPrimaryURL ->
               Page(<<Article("Bitcoin tops 100k", "/markets/a1")>>,
                    <<>>, <<>>)
          [] u = CoinDeskSecondaryURL ->
               Page(<<Article("Bitcoin tops 100k", "/markets/a1")>>,
                    <<>>, <<>>)
          [] u = CoinTelegraphPrimaryURL ->
               Page(<<Article("Crypto bank opens", "/news/b2")>>, <<>>, <<>>)
          [] OTHER ->
               Page(<<Article("Crypto bank opens", "/news/b2")>>,
                    <<>>, <<>>)]

Scenarios == {"single", "pair", "many", "refusing"}

PagesOf(sc) ==
    CASE sc = "single" -> SinglePages
      [] sc = "pair" -> PairPages
      [] OTHER -> ManyPages

Responses(sc, u) ==
    { [kind |-> "ok", page |-> PagesOf(sc)[u], status |-> 200],
      [kind |-> "ok", page |-> EmptyPage, status |-> 200],
      [kind |-> "status", page |-> EmptyPage, status |-> 403],
      [kind |-> "status", page |-> EmptyPage, status |-> 503],
      [kind |-> "raise", page |-> EmptyPage, status |-> 0] }

\* pages without article containers, and a page whose titles are too short
HarvestPages(u) ==
    IF u = CoinDeskPrimaryURL
    THEN {Page(<<>>,
               <<Anchor("/markets/h1", "Bitcoin rally extends gains"),
                 Anchor("/tag/bitcoin/", "Bitcoin tag page listing"),
                 Anchor("/about", "About us and contact"),
                 Anchor("/markets/h2", "Too short")>>, <<>>),
          Page(<<Article("Short one", "/markets/a0")>>, <<>>, <<>>)}
    ELSE IF u = CoinTelegraphPrimaryURL
    THEN {Page(<<>>, <<>>,
               << <<Anchor("/news/k1", "Crypto funds see inflows")>>,
                  <<Anchor("/news/k2#c", "Comments on crypto funds"),
                    Anchor("/news/k3", "Sign up for crypto news")>> >>),
          Page(<<>>, <<Anchor("/news/k4", "Bitcoin miners move offshore")>>,
               <<>>),
          Page(<<Article("Short one", "/news/b0")>>, <<>>, <<>>)}
    ELSE {}

\* the fingerprints of the items send_message always raises on
ManyListing ==
    ArticleItems(ManyPages[CoinDeskPrimaryURL].articles, CoinDeskBase,
                 "CoinDesk")
    \o ArticleItems(ManyPages[CoinTelegraphPrimaryURL].articles,
                    CoinTelegraphBase, "CoinTelegraph")
ManyKeys == {Fingerprint(ManyListing[i]) : i \in DOMAIN ManyListing}
RefusedKeys == {Fingerprint(ManyListing[i]) : i \in 1..MaxPostsPerCycle}
Refused(sc) == IF sc = "refusing" THEN RefusedKeys ELSE {}

\* the responses a fetch is tried on
FetchResponses(u) ==
    UNION {Responses(sc, u) : sc \in Scenarios}
    \cup {[kind |-> "ok", page |-> pg, status |-> 200] :
             pg \in HarvestPages(u)}

\* the stores a run may find in its file: none, fresh entries, entries
\* posted RetentionDays ago
Posted(title, link, t) ==
    [key |-> title \o ":" \o link,
     val |-> [title |-> title, timestamp |-> IsoFormat(t)]]

StoreOf(entries) ==
    [k \in {e.key : e \in entries} |->
        (CHOOSE e \in entries : e.key = k).val]

NowStart == RetentionDays

InitialStores(sc) ==
    IF sc = "single"
    THEN { EmptyStore,
           StoreOf({Posted("Crypto bank opens",
                           "https://cointelegraph.com/news/b2", 0)}) }
    ELSE IF sc = "pair"
    THEN { EmptyStore,
           StoreOf({Posted("BTC miners expand",
                           "https://www.coindesk.com/markets/a2", NowStart),
                    Posted("Crypto bank opens",
                           "https://cointelegraph.com/news/b2", NowStart)}),
           StoreOf({Posted("BTC miners expand",
                           "https://www.coindesk.com/markets/a2", 0),
                    Posted("Crypto bank opens",
                           "https://cointelegraph.com/news/b2", NowStart)}) }
    ELSE { EmptyStore,
           StoreOf({Posted("Bitcoin story c" \o c,
                           "https://www.coindesk.com/markets/c" \o c, 0) :
                    c \in {"1", "2", "3", "4"}}
                   \cup {Posted("Bitcoin story d1",
                                "https://cointelegraph.com/news/d1", 0)}) }

(***************************************************************************)
(* The state.  Two coroutines run cycles on the one event loop: "sched",   *)
(* main's startup check followed by the task scheduled_news_check, and     *)
(* "cmd", the handler of /checknews (the application handles one update at *)
(* a time).  A coroutine's pc is the await it is suspended at.             *)
(***************************************************************************)
VARIABLES
    scenario,       \* which pages the sites serve in this run
    now,            \* datetime.now(), in days
    posted_news,    \* self.posted_news
    file,           \* POSTED_NEWS_FILE
    pc,             \* where each coroutine is suspended
    kind,           \* which cycle it runs: startup, scheduled, ondemand
    all_news,       \* check_and_post_news: coindesk_news, then all_news
    idx,            \* the position of news_item in all_news
    posts_count,    \* check_and_post_news: posts_count
    faults,         \* the sends rejected and the writes failed so far
    loaded,         \* history: the fingerprints loaded at startup
    delivered,      \* history: the fingerprints sent with success this run
    attempts,       \* history: the sends of the cycle, [i, ok]
    skipped,        \* history: the positions found posted when reached
    afterSleep,     \* history: the cycle of sched began when a sleep ended
    pruned,         \* history: the fingerprints the cycle's pruning removed
    prev,           \* history: the coroutine's previous cycle
    fetched,        \* a fetch on its own: the responses and what it returned
    cancelled,      \* news_check_task.cancel() was called
    returned        \* history: what the two fetches of the cycle returned

vars == <<scenario, now, posted_news, file, pc, kind, all_news, idx,
          posts_count, faults, loaded, delivered,
          attempts, skipped, afterSleep, pruned, prev, fetched, cancelled,
          returned>>

MaxTicks == 1
MaxFaults == 1

Procs == {"sched", "cmd"}
CyclePcs == {"fetch_coindesk", "fetch_cointelegraph", "send", "delay"}
InCycle(p) == pc[p] \in CyclePcs

\* where the coroutine goes when check_and_post_news returns
AfterCycle(k) ==
    CASE k = "startup" -> "spawn"
      [] k = "scheduled" -> "sleep"
      [] OTHER -> "reply"

\* a cycle that lets the exception through: the task of the loop ends
ExceptionEscapes(k) == "stopped"

\* "except Exception as e: logger.error(...)": the cycle returns to its caller
AfterException(k) == AfterCycle(k)

\* the sources joined the other way round
CoinTelegraphFirst(coindesk_news, cointelegraph_news) ==
    cointelegraph_news \o coindesk_news

\* a cycle that has nothing to post when a source has returned nothing
NothingIfOneEmpty(coindesk_news, cointelegraph_news) ==
    IF coindesk_news = <<>> \/ cointelegraph_news = <<>> THEN <<>>
    ELSE coindesk_news \o cointelegraph_news

\* "all_news = coindesk_news + cointelegraph_news"
AllNews(coindesk_news, cointelegraph_news) ==
    coindesk_news \o cointelegraph_news

\* a post_news_to_channel that marks the item before it knows of the send
MarkBeforeSend(store, n, t, ok) == MarkAsPosted(store, n, t)

\* post_news_to_channel: the store after the send returned (ok) or raised
PostNewsToChannel(store, n, t, ok) ==
    IF ok THEN MarkAsPosted(store, n, t) ELSE store

\* a CancelledError caught by the handler of the cycle
CancelledCaught(at, k) ==
    IF at \in CyclePcs THEN AfterCycle(k) ELSE "cancelled"

\* where the coroutine goes when CancelledError is raised at the await it
\* is suspended at: it is no Exception, so neither the handlers of the
\* fetch and the send nor those of the cycle and the loop catch it
OnCancelled(at, k) == "cancelled"

\* a loop that sleeps only after a send the sink accepted
DelayAfterSuccess(success) == IF success THEN "delay" ELSE "send"

\* "await asyncio.sleep(2)" follows the send whatever it returned
AfterSend(success) == "delay"

\* a count of the sends, accepted or not
CountEverySend(count, success) == count + 1

\* "if success: posts_count += 1"
Counted(count, success) == IF success THEN count + 1 ELSE count

\* a cap tested one send too late
CapTestedLate(count) == count > MaxPostsPerCycle

\* "if posts_count >= 5: break"
CapReached(count) == count >= MaxPostsPerCycle

\* "isinstance(news, dict) and all(k in news for k in [...])"
ValidItems(items) ==
    SelectSeq(items, LAMBDA n : {"title", "link", "source"} \subseteq DOMAIN n)

\* the position of the next item of the for loop that is not posted,
\* 0 when the loop runs out
NextCandidate(store, news, from) ==
    LET S == {i \in from..Len(news) : ~IsNewsPosted(store, news[i])}
    IN IF S = {} THEN 0 ELSE CHOOSE i \in S : \A j \in S : i <= j

\* the write w is a failure the environment still has in store, or "ok"
WriteAllowed(w, written) ==
    /\ w \in WriteOutcomes
    /\ (w # "ok") => (written /\ faults < MaxFaults)

StartPc == [p \in Procs |-> IF p = "sched" THEN "boot" ELSE "idle"]
NoList == [p \in Procs |-> <<>>]
NoCount == [p \in Procs |-> 0]

\* what fetch_coindesk_news can return, over the responses of the sites
CoinDeskResults ==
    [sc \in Scenarios |->
        {FetchCoinDesk(r1, r2).items :
            r1 \in Responses(sc, CoinDeskPrimaryURL),
            r2 \in Responses(sc, CoinDeskSecondaryURL)}]

\* what fetch_cointelegraph_news can return
CoinTelegraphResults ==
    [sc \in Scenarios |->
        {FetchCoinTelegraph(r1, r2).items :
            r1 \in Responses(sc, CoinTelegraphPrimaryURL),
            r2 \in Responses(sc, CoinTelegraphSecondaryURL)}]

NoSet == [p \in Procs |-> {}]
NoPrev == [ran |-> FALSE, normal |-> FALSE, news |-> <<>>, failed |-> {},
           settled |-> FALSE]
NoFetch == [source |-> "none"]
NoReturn == [coindesk |-> <<>>, cointelegraph |-> <<>>]

InitFiles(sc) ==
    {[kind |-> "missing", val |-> EmptyStore]}
    \cup {[kind |-> "json", val |-> st] : st \in InitialStores(sc)}

InitBot(scenarios) ==
    /\ scenario \in scenarios
    /\ now = NowStart
    /\ file \in InitFiles(scenario)
    /\ posted_news = LoadPostedNews(file)
    /\ loaded = DOMAIN posted_news
    /\ faults = 0
    /\ pc = StartPc
    /\ kind = [p \in Procs |-> "none"]
    /\ all_news = NoList
    /\ idx = NoCount
    /\ posts_count = NoCount
    /\ attempts = NoList
    /\ skipped = NoSet
    /\ afterSleep = FALSE
    /\ delivered = {}
    /\ pruned = NoSet
    /\ prev = [p \in Procs |-> NoPrev]
    /\ cancelled = FALSE
    /\ returned = [p \in Procs |-> NoReturn]

InitIn(scenarios) ==
    /\ InitBot(scenarios)
    /\ fetched = NoFetch

Init == InitIn({"single"})

(***************************************************************************)
(* check_and_post_news, from one await to the next.                        *)
(***************************************************************************)
\* the for loop from position from on, up to the await of the next send
Scan(p, news, from) ==
    LET i == NextCandidate(posted_news, news, from)
        last == IF i = 0 THEN Len(news) ELSE i - 1
    IN /\ idx' = [idx EXCEPT ![p] = IF i = 0 THEN Len(news) + 1 ELSE i]
       /\ pc' = [pc EXCEPT ![p] = IF i = 0 THEN AfterCycle(kind[p])
                                  ELSE "send"]
       /\ skipped' = [skipped EXCEPT ![p] = @ \cup
              {j \in from..last : Fingerprint(news[j]) \in DOMAIN posted_news}]

\* what the cycle the coroutine ran before left behind: whether its loop was
\* reached (normal), its candidates (news), the fingerprints of the sends
\* the sink rejected that it left unmarked (failed), and whether it left
\* every candidate in the store (settled)
Previous(p) ==
    IF kind[p] = "none" THEN NoPrev
    ELSE [ran |-> TRUE,
          normal |-> idx[p] > 0,
          news |-> all_news[p],
          failed |-> {Fingerprint(all_news[p][attempts[p][a].i]) :
                         a \in {b \in DOMAIN attempts[p] : ~attempts[p][b].ok}}
                     \ DOMAIN posted_news,
          settled |-> \A i \in DOMAIN all_news[p] :
                         Fingerprint(all_news[p][i]) \in DOMAIN posted_news]

\* the call: clean_old_posts, then the first request of fetch_coindesk_news;
\* keep says whether the history of the previous cycle is recorded
BeginCycle(p, k, keep) ==
    \E w \in WriteOutcomes :
        LET to_remove == ToRemove(posted_news, now)
            cleaned == CleanOldPosts(posted_news, now)
        IN /\ WriteAllowed(w, to_remove # {})
           /\ posted_news' = KeptAfterWrite(cleaned, posted_news, w)
           /\ file' = IF to_remove # {}
                      THEN SavePostedNews(cleaned, file, w) ELSE file
           /\ faults' = IF w = "ok" THEN faults ELSE faults + 1
           /\ pc' = [pc EXCEPT ![p] = "fetch_coindesk"]
           /\ kind' = [kind EXCEPT ![p] = k]
           /\ all_news' = [all_news EXCEPT ![p] = <<>>]
           /\ idx' = [idx EXCEPT ![p] = 0]
           /\ posts_count' = [posts_count EXCEPT ![p] = 0]
           /\ attempts' = [attempts EXCEPT ![p] = <<>>]
           /\ skipped' = [skipped EXCEPT ![p] = {}]
           /\ pruned' = [pruned EXCEPT ![p] = to_remove]
           /\ prev' = [prev EXCEPT ![p] = IF keep THEN Previous(p)
                                          ELSE NoPrev]
           /\ returned' = [returned EXCEPT ![p] = NoReturn]
           /\ UNCHANGED <<scenario, now, loaded, delivered, fetched,
                          cancelled>>

\* fetch_coindesk_news returns; fetch_cointelegraph_news sends its request
CoinDeskFetched(p) ==
    /\ pc[p] = "fetch_coindesk"
    /\ \E coindesk_news \in CoinDeskResults[scenario] :
          /\ all_news' = [all_news EXCEPT ![p] = ValidItems(coindesk_news)]
          /\ returned' = [returned EXCEPT ![p].coindesk = coindesk_news]
    /\ pc' = [pc EXCEPT ![p] = "fetch_cointelegraph"]
    /\ UNCHANGED <<scenario, now, posted_news, file, kind, idx, posts_count,
                   faults, loaded, delivered, attempts,
                   skipped, afterSleep, pruned, prev, fetched, cancelled>>

\* fetch_cointelegraph_news returns; the loop runs to its first send
CoinTelegraphFetched(p) ==
    /\ pc[p] = "fetch_cointelegraph"
    /\ \E cointelegraph_news \in CoinTelegraphResults[scenario] :
          LET news == AllNews(all_news[p], ValidItems(cointelegraph_news))
          IN /\ all_news' = [all_news EXCEPT ![p] = news]
             /\ returned' = [returned EXCEPT
                                ![p].cointelegraph = cointelegraph_news]
             /\ Scan(p, news, 1)
    /\ UNCHANGED <<scenario, now, posted_news, file, kind, posts_count,
                   faults, loaded, delivered, attempts,
                   afterSleep, pruned, prev, fetched, cancelled>>

\* send_message returns or raises; post_news_to_channel marks and returns;
\* the loop goes to sleep for the delay between posts
SendDone(p) ==
    /\ pc[p] = "send"
    /\ \E ok \in BOOLEAN, w \in WriteOutcomes :
          LET news_item == all_news[p][idx[p]]
              marked == PostNewsToChannel(posted_news, news_item, now, ok)
              saved == ok /\ IsMapping(posted_news)
              refused == Fingerprint(news_item) \in Refused(scenario)
          IN /\ WriteAllowed(w, saved)
             /\ refused => ~ok
             /\ (~ok /\ ~refused) => faults < MaxFaults
             /\ posted_news' = KeptAfterWrite(marked, posted_news, w)
             /\ file' = IF saved THEN SavePostedNews(marked, file, w)
                        ELSE file
             /\ faults' = IF (ok /\ w = "ok") \/ refused THEN faults
                          ELSE faults + 1
             /\ posts_count' = [posts_count EXCEPT ![p] = Counted(@, ok)]
             /\ delivered' = IF ok
                             THEN delivered \cup {Fingerprint(news_item)}
                             ELSE delivered
             /\ attempts' = [attempts EXCEPT ![p] =
                                Append(@, [i |-> idx[p], ok |-> ok])]
             /\ pc' = [pc EXCEPT ![p] = AfterSend(ok)]
    /\ UNCHANGED <<scenario, now, kind, all_news, idx, loaded, skipped,
                   afterSleep, pruned, prev, fetched,
                   cancelled, returned>>

\* the delay is over: the cap is tested, and the loop goes on
DelayDone(p) ==
    /\ pc[p] = "delay"
    /\ IF CapReached(posts_count[p])
       THEN /\ pc' = [pc EXCEPT ![p] = AfterCycle(kind[p])]
            /\ UNCHANGED <<idx, skipped>>
       ELSE Scan(p, all_news[p], idx[p] + 1)
    /\ UNCHANGED <<scenario, now, posted_news, file, kind, all_news,
                   posts_count, faults, loaded,
                   delivered, attempts, afterSleep, pruned, prev,
                   fetched,
                   cancelled, returned>>

\* an exception no callee handles reaches the handler of the cycle
CycleRaises(p) ==
    /\ pc[p] \in {"fetch_coindesk", "fetch_cointelegraph"}
    /\ pc' = [pc EXCEPT ![p] = AfterException(kind[p])]
    /\ UNCHANGED <<scenario, now, posted_news, file, kind, all_news, idx,
                   posts_count, faults, loaded, delivered, attempts,
                   skipped, afterSleep, pruned, prev, fetched,
                   cancelled, returned>>

(***************************************************************************)
(* main, scheduled_news_check and cmd_check_news.                          *)
(***************************************************************************)
\* main: "Run initial news check"
StartupCheck(keep) ==
    /\ pc["sched"] = "boot"
    /\ BeginCycle("sched", "startup", keep)
    /\ UNCHANGED afterSleep

\* the task created by main runs its first iteration
FirstScheduledCheck(keep) ==
    /\ pc["sched"] = "spawn"
    /\ BeginCycle("sched", "scheduled", keep)
    /\ afterSleep' = FALSE

\* asyncio.sleep(NEWS_CHECK_INTERVAL) is over: the next iteration
ScheduledCheck(keep) ==
    /\ pc["sched"] = "sleep"
    /\ BeginCycle("sched", "scheduled", keep)
    /\ afterSleep' = TRUE

\* /checknews arrives: the handler sends its first reply
CmdReceived ==
    /\ pc["cmd"] = "idle"
    /\ pc' = [pc EXCEPT !["cmd"] = "ack"]
    /\ UNCHANGED <<scenario, now, posted_news, file, kind, all_news, idx,
                   posts_count, faults, loaded,
                   delivered, attempts, skipped, afterSleep, pruned, prev,
                   fetched,
                   cancelled, returned>>

\* the handler returns: its frame is gone
HandlerReturns ==
    /\ pc' = [pc EXCEPT !["cmd"] = "idle"]
    /\ kind' = [kind EXCEPT !["cmd"] = "none"]
    /\ all_news' = [all_news EXCEPT !["cmd"] = <<>>]
    /\ idx' = [idx EXCEPT !["cmd"] = 0]
    /\ posts_count' = [posts_count EXCEPT !["cmd"] = 0]
    /\ attempts' = [attempts EXCEPT !["cmd"] = <<>>]
    /\ skipped' = [skipped EXCEPT !["cmd"] = {}]
    /\ pruned' = [pruned EXCEPT !["cmd"] = {}]
    /\ returned' = [returned EXCEPT !["cmd"] = NoReturn]
    /\ UNCHANGED <<scenario, now, posted_news, file, faults, loaded,
                   delivered, afterSleep, prev, fetched,
                   cancelled>>

\* the first reply raised: the handler reports the error and returns
CmdAckFails ==
    /\ pc["cmd"] = "ack"
    /\ HandlerReturns

\* the first reply is sent: the handler runs the cycle
CmdCheck ==
    /\ pc["cmd"] = "ack"
    /\ BeginCycle("cmd", "ondemand", FALSE)
    /\ UNCHANGED afterSleep

\* "News check completed!"
CmdReplied ==
    /\ pc["cmd"] = "reply"
    /\ HandlerReturns

\* a day passes
Tick ==
    /\ now < NowStart + MaxTicks
    /\ now' = now + 1
    /\ UNCHANGED <<scenario, posted_news, file, pc, kind, all_news, idx,
                   posts_count, faults, loaded,
                   delivered, attempts, skipped, afterSleep, pruned, prev,
                   fetched,
                   cancelled, returned>>

\* a day passes between two cycles: with no command handler, the clock of
\* the model stands still during the seconds of a cycle
TickBetweenCycles ==
    /\ \A p \in Procs : ~InCycle(p)
    /\ Tick

\* the process ends and is started again: CryptoNewsBot.__init__
StartOn(f) ==
    /\ posted_news' = LoadPostedNews(f)
    /\ loaded' = DOMAIN posted_news'
    /\ pc' = StartPc
    /\ kind' = [p \in Procs |-> "none"]
    /\ all_news' = NoList
    /\ idx' = NoCount
    /\ posts_count' = NoCount
    /\ attempts' = NoList
    /\ skipped' = NoSet
    /\ afterSleep' = FALSE
    /\ delivered' = {}
    /\ pruned' = NoSet
    /\ prev' = [p \in Procs |-> NoPrev]
    /\ cancelled' = FALSE
    /\ returned' = [p \in Procs |-> NoReturn]

Restart ==
    /\ StartOn(file)
    /\ UNCHANGED <<scenario, now, file, faults, fetched>>

\* save_posted_news is at work, called by mark_as_posted after a send the
\* sink accepted or by a clean_old_posts that removed something
Saving ==
    \/ pc["sched"] = "send" /\ IsMapping(posted_news)
    \/ /\ pc["sched"] \in {"boot", "spawn", "sleep"}
       /\ ToRemove(posted_news, now) # {}

\* the process is killed after open(POSTED_NEWS_FILE, 'w') has truncated
\* the file and before json.dump has written the mapping, and is started
\* again
CrashWhileSaving ==
    /\ Saving
    /\ faults < MaxFaults
    /\ faults' = faults + 1
    /\ file' = SavePostedNews(posted_news, file, "dump_fails")
    /\ StartOn(file')
    /\ UNCHANGED <<scenario, now, fetched>>

Step(p) ==
    \/ CoinDeskFetched(p)
    \/ CoinTelegraphFetched(p)
    \/ SendDone(p)
    \/ DelayDone(p)
    \/ CycleRaises(p)

SchedNext(keep) ==
    \/ StartupCheck(keep)
    \/ FirstScheduledCheck(keep)
    \/ ScheduledCheck(keep)
    \/ Step("sched")

CmdNext ==
    \/ CmdReceived
    \/ CmdAckFails
    \/ CmdCheck
    \/ CmdReplied
    \/ Step("cmd")

\* the bot with its command handler
Next == SchedNext(FALSE) \/ CmdNext \/ Tick

Spec == Init /\ [][Next]_vars

\* the bot when no command arrives, with the history of the previous cycle
InitSeq == InitIn({"pair", "many"})

NextSeq == SchedNext(TRUE) \/ TickBetweenCycles

SpecSeq == InitSeq /\ [][NextSeq]_vars

\* the same bot over restarts of the process
InitCrash == InitIn({"pair"})

NextCrash == SchedNext(FALSE) \/ TickBetweenCycles \/ Restart

SpecCrash == InitCrash /\ [][NextCrash]_vars

\* the same, with a process that may be killed in the middle of a write
NextKill == NextCrash \/ CrashWhileSaving

SpecKill == InitCrash /\ [][NextKill]_vars

\* the same bot on an event loop that runs every coroutine that is ready
InitLive == InitIn({"single"})

\* the scheduled loop within one day on the seven articles, with a sink
\* that accepts them and with a sink that refuses the first five
InitRetry == InitIn({"many", "refusing"})

NextRetry == SchedNext(TRUE)

SpecRetry == InitRetry /\ [][NextRetry]_vars /\ WF_vars(NextRetry)

SpecLive == InitLive /\ [][NextSeq]_vars /\ WF_vars(SchedNext(TRUE))

(***************************************************************************)
(* Shutdown: the finally block of main cancels the task of the loop while  *)
(* it is suspended at a fetch, a send, the delay or the sleep.             *)
(***************************************************************************)
Cancel ==
    /\ ~cancelled
    /\ kind["sched"] = "scheduled"
    /\ pc["sched"] \in CyclePcs \cup {"sleep"}
    /\ cancelled' = TRUE
    /\ pc' = [pc EXCEPT !["sched"] = OnCancelled(@, kind["sched"])]
    /\ UNCHANGED <<scenario, now, posted_news, file, kind, all_news, idx,
                   posts_count, faults, loaded, delivered, attempts,
                   skipped, afterSleep, pruned, prev, fetched, returned>>

InitStop == InitIn({"pair"})

NextStop == SchedNext(FALSE) \/ TickBetweenCycles \/ Cancel

SpecStop == InitStop /\ [][NextStop]_vars

(***************************************************************************)
(* The bot started on any file: one that is missing, truncated or cannot   *)
(* be read, and one whose JSON value is no object.  When load_posted_news  *)
(* raises, CryptoNewsBot() raises in main, outside its try block.          *)
(***************************************************************************)
LoadFiles ==
    {[kind |-> k, val |-> EmptyStore] :
        k \in {"missing", "partial", "unreadable"}}
    \cup {[kind |-> "json", val |-> NotAMapping(what)] :
             what \in {"list", "number"}}
    \cup {[kind |-> "json", val |-> st] : st \in InitialStores("single")}

InitLoad ==
    /\ scenario = "single"
    /\ now = NowStart
    /\ file \in LoadFiles
    /\ posted_news = LoadPostedNews(file)
    /\ loaded = IF IsMapping(posted_news) THEN DOMAIN posted_news ELSE {}
    /\ faults = 0
    /\ pc = [StartPc EXCEPT !["sched"] =
                IF LoadRaises(file) THEN "crashed" ELSE @]
    /\ kind = [p \in Procs |-> "none"]
    /\ all_news = NoList
    /\ idx = NoCount
    /\ posts_count = NoCount
    /\ attempts = NoList
    /\ skipped = NoSet
    /\ afterSleep = FALSE
    /\ delivered = {}
    /\ pruned = NoSet
    /\ prev = [p \in Procs |-> NoPrev]
    /\ fetched = NoFetch
    /\ cancelled = FALSE
    /\ returned = [p \in Procs |-> NoReturn]

NextLoad == SchedNext(FALSE) \/ TickBetweenCycles

SpecLoad == InitLoad /\ [][NextLoad]_vars

(***************************************************************************)
(* clean_old_posts on its own, on any store of entries: posted a day ago,  *)
(* RetentionDays ago and a day more, and the entries a file written by     *)
(* another hand may hold.                                                  *)
(***************************************************************************)
PruneNow == NowStart + 1

PruneEntries ==
    {[key |-> "Posted yesterday:u1",
      val |-> [title |-> "Posted yesterday",
               timestamp |-> IsoFormat(PruneNow - 1)]],
     [key |-> "At the limit:u2",
      val |-> [title |-> "At the limit",
               timestamp |-> IsoFormat(PruneNow - RetentionDays)]],
     [key |-> "Past the limit:u3",
      val |-> [title |-> "Past the limit",
               timestamp |-> IsoFormat(PruneNow - RetentionDays - 1)]],
     [key |-> "No record:u4", val |-> [nonrecord |-> "string"]],
     [key |-> "No timestamp:u5", val |-> [title |-> "No timestamp"]],
     [key |-> "No title:u6", val |-> [timestamp |-> IsoFormat(PruneNow)]],
     [key |-> "No time:u7",
      val |-> [title |-> "No time", timestamp |-> [text |-> "yesterday"]]],
     [key |-> "Epoch seconds:u8",
      val |-> [title |-> "Epoch seconds", timestamp |-> [number |-> 0]]]}

InitPrune ==
    /\ scenario = "single"
    /\ now = PruneNow
    /\ \E entries \in SUBSET PruneEntries :
          posted_news = StoreOf(entries)
    /\ file = [kind |-> "json", val |-> posted_news]
    /\ loaded = DOMAIN posted_news
    /\ faults = 0
    /\ pc = StartPc
    /\ kind = [p \in Procs |-> "none"]
    /\ all_news = NoList
    /\ idx = NoCount
    /\ posts_count = NoCount
    /\ attempts = NoList
    /\ skipped = NoSet
    /\ afterSleep = FALSE
    /\ delivered = {}
    /\ pruned = NoSet
    /\ prev = [p \in Procs |-> NoPrev]
    /\ fetched = NoFetch
    /\ cancelled = FALSE
    /\ returned = [p \in Procs |-> NoReturn]

\* the call of clean_old_posts, to its return
RunPrune ==
    /\ pc["sched"] = "boot"
    /\ \E w \in WriteOutcomes :
          LET to_remove == ToRemove(posted_news, now)
              cleaned == CleanOldPosts(posted_news, now)
          IN /\ WriteAllowed(w, to_remove # {})
             /\ posted_news' = KeptAfterWrite(cleaned, posted_news, w)
             /\ file' = IF to_remove # {}
                        THEN SavePostedNews(cleaned, file, w) ELSE file
             /\ faults' = IF w = "ok" THEN faults ELSE faults + 1
             /\ pruned' = [pruned EXCEPT !["sched"] = to_remove]
    /\ pc' = [pc EXCEPT !["sched"] = "pruned"]
    /\ UNCHANGED <<scenario, now, kind, all_news, idx, posts_count, loaded,
                   delivered, attempts, skipped, afterSleep, prev, fetched,
                   cancelled, returned>>

NextPrune == RunPrune

SpecPrune == InitPrune /\ [][NextPrune]_vars

(***************************************************************************)
(* mark_as_posted of one record and is_news_posted of another, on any two  *)
(* records: all_news holds the pair.                                       *)
(***************************************************************************)
KeyTitles == {"Bitcoin rally", "Bitcoin rally:http", "Ether slump"}
KeyLinks == {"http://e.com/a", "http:http://e.com/a", "http://e.com/b"}
KeySummaries == {"", "Prices moved"}

KeyRecords ==
    {[title |-> t, link |-> l, source |-> o, summary |-> y] :
        t \in KeyTitles, l \in KeyLinks,
        o \in {"CoinDesk", "CoinTelegraph"}, y \in KeySummaries}

InitKey ==
    /\ scenario = "single"
    /\ now = NowStart
    /\ posted_news = EmptyStore
    /\ file = [kind |-> "json", val |-> posted_news]
    /\ loaded = {}
    /\ faults = 0
    /\ pc = StartPc
    /\ kind = [p \in Procs |-> "none"]
    /\ \E first \in KeyRecords, second \in KeyRecords :
          all_news = [NoList EXCEPT !["sched"] = <<first, second>>]
    /\ idx = NoCount
    /\ posts_count = NoCount
    /\ attempts = NoList
    /\ skipped = NoSet
    /\ afterSleep = FALSE
    /\ delivered = {}
    /\ pruned = NoSet
    /\ prev = [p \in Procs |-> NoPrev]
    /\ fetched = NoFetch
    /\ cancelled = FALSE
    /\ returned = [p \in Procs |-> NoReturn]

\* the call of mark_as_posted on the first record, to its return
RunMark ==
    /\ pc["sched"] = "boot"
    /\ \E w \in WriteOutcomes :
          LET marked == MarkAsPosted(posted_news, all_news["sched"][1], now)
          IN /\ WriteAllowed(w, TRUE)
             /\ posted_news' = KeptAfterWrite(marked, posted_news, w)
             /\ file' = SavePostedNews(marked, file, w)
             /\ faults' = IF w = "ok" THEN faults ELSE faults + 1
    /\ pc' = [pc EXCEPT !["sched"] = "marked"]
    /\ UNCHANGED <<scenario, now, kind, all_news, idx, posts_count, loaded,
                   delivered, attempts, skipped, afterSleep, pruned, prev,
                   fetched, cancelled, returned>>

NextKey == RunMark

SpecKey == InitKey /\ [][NextKey]_vars

(***************************************************************************)
(* A fetch on its own, on any pair of responses.                           *)
(***************************************************************************)
Sources == {"CoinDesk", "CoinTelegraph"}
PrimaryURL(source) ==
    IF source = "CoinDesk" THEN CoinDeskPrimaryURL
    ELSE CoinTelegraphPrimaryURL
SecondaryURL(source) ==
    IF source = "CoinDesk" THEN CoinDeskSecondaryURL
    ELSE CoinTelegraphSecondaryURL

\* what the 200 branch of the primary request extracts
PrimaryItems(source, r1) ==
    IF r1.kind # "ok" THEN <<>>
    ELSE IF source = "CoinDesk" THEN CoinDeskPrimaryItems(r1.page)
    ELSE CoinTelegraphPrimaryItems(r1.page)

InitFetch ==
    /\ InitBot({"pair"})
    /\ file.kind = "missing"
    /\ \E source \in Sources :
          \E r1 \in FetchResponses(PrimaryURL(source)),
             r2 \in FetchResponses(SecondaryURL(source)) :
             fetched = [source |-> source, r1 |-> r1, r2 |-> r2,
                        done |-> FALSE,
                        out |-> [items |-> <<>>, requests |-> <<>>]]

\* the coroutine fetch_coindesk_news or fetch_cointelegraph_news, run to
\* its return
RunFetch ==
    /\ fetched.source \in Sources
    /\ ~fetched.done
    /\ fetched' = [fetched EXCEPT
                      !.done = TRUE,
                      !.out = IF fetched.source = "CoinDesk"
                              THEN FetchCoinDesk(fetched.r1, fetched.r2)
                              ELSE FetchCoinTelegraph(fetched.r1, fetched.r2)]
    /\ UNCHANGED <<scenario, now, posted_news, file, pc, kind, all_news, idx,
                   posts_count, faults, loaded, delivered, attempts,
                   skipped, afterSleep, pruned, prev, cancelled, returned>>

NextFetch == RunFetch

SpecFetch == InitFetch /\ [][NextFetch]_vars

(***************************************************************************)
(* A fetch of a tag page that holds one candidate, on any title, link,     *)
(* source and extraction mode: "listing" is the article loop, "harvest"    *)
(* the loop over the links.                                                *)
(***************************************************************************)
TitleTexts ==
    {"", "Nine char", "Ten chars!", " Ten chars! ", "Eleven char",
     "Fourteen chars", "Fifteen chars!!", "Sixteen chars!!!"}
TitleLinks == {"", "/markets/t1"}
Modes == {"listing", "harvest"}

TitlePage(source, mode, text, href) ==
    IF mode = "listing" THEN Page(<<Article(text, href)>>, <<>>, <<>>)
    ELSE IF source = "CoinDesk"
    THEN Page(<<>>, <<Anchor(href, text)>>, <<>>)
    ELSE Page(<<>>, <<>>, << <<Anchor(href, text)>> >>)

InitTitle ==
    /\ InitBot({"pair"})
    /\ file.kind = "missing"
    /\ \E source \in Sources, mode \in Modes,
          text \in TitleTexts, href \in TitleLinks :
          fetched = [source |-> source,
                     r1 |-> [kind |-> "ok", status |-> 200,
                             page |-> TitlePage(source, mode, text, href)],
                     r2 |-> [kind |-> "status", page |-> EmptyPage,
                             status |-> 503],
                     done |-> FALSE,
                     out |-> [items |-> <<>>, requests |-> <<>>],
                     mode |-> mode, text |-> text, href |-> href]

SpecTitle == InitTitle /\ [][NextFetch]_vars

(***************************************************************************)
(* A fetch of a tag page that holds n articles, or n topical anchors and   *)
(* no article.  The anchors of CoinTelegraph lie in one list container, in *)
(* two where one is inside the other ("nested": both select the same       *)
(* anchors), or n in each of two containers side by side ("two").          *)
(***************************************************************************)
MaxOnPage == LinkLimit + 2
Numerals ==
    <<"01", "02", "03", "04", "05", "06", "07", "08", "09", "10",
      "11", "12", "13", "14", "15", "16", "17">>
Layouts == {"one", "nested", "two"}

NumberedArticles(n) ==
    [i \in 1..n |-> Article("Bitcoin story number " \o Numerals[i],
                            "/news/n" \o Numerals[i])]
NumberedAnchors(n, path) ==
    [i \in 1..n |-> Anchor(path \o Numerals[i],
                           "Bitcoin story number " \o Numerals[i])]

CapPage(source, mode, layout, n) ==
    IF mode = "listing" THEN Page(NumberedArticles(n), <<>>, <<>>)
    ELSE IF source = "CoinDesk"
    THEN Page(<<>>, NumberedAnchors(n, "/markets/k"), <<>>)
    ELSE Page(<<>>, <<>>,
              CASE layout = "one" -> <<NumberedAnchors(n, "/news/k")>>
                [] layout = "nested" -> <<NumberedAnchors(n, "/news/k"),
                                          NumberedAnchors(n, "/news/k")>>
                [] OTHER -> <<NumberedAnchors(n, "/news/k"),
                              NumberedAnchors(n, "/bitcoin/k")>>)

InitCap ==
    /\ InitBot({"pair"})
    /\ file.kind = "missing"
    /\ \E source \in Sources, mode \in Modes, layout \in Layouts,
          n \in 0..MaxOnPage :
          /\ (mode = "listing" \/ source = "CoinDesk") => layout = "one"
          /\ fetched = [source |-> source,
                        r1 |-> [kind |-> "ok", status |-> 200,
                                page |-> CapPage(source, mode, layout, n)],
                        r2 |-> [kind |-> "status", page |-> EmptyPage,
                                status |-> 503],
                        done |-> FALSE,
                        out |-> [items |-> <<>>, requests |-> <<>>],
                        mode |-> mode, layout |-> layout, n |-> n]

SpecCap == InitCap /\ [][NextFetch]_vars

(***************************************************************************)
(* The claims.                                                             *)
(***************************************************************************)
\* the cycle of p has returned, by the end of its loop or by its cap
NormalEnd(p) == ~InCycle(p) /\ kind[p] # "none" /\ idx[p] > 0

\* the cycle of p has returned from its exception handler
Raised(p) == ~InCycle(p) /\ kind[p] # "none" /\ idx[p] = 0

\* the positions of all_news the cycle of p has sent, and those among them
\* the sink rejected
Sent(p) == {attempts[p][a].i : a \in DOMAIN attempts[p]}
Rejected(p) ==
    {attempts[p][a].i : a \in {b \in DOMAIN attempts[p] : ~attempts[p][b].ok}}

\* C1: every fingerprint in posted_news that was not in the file loaded at
\* startup is the fingerprint of an item whose send reported success earlier
\* in this run; a fetch or a failed send adds no entry.
OnlyDeliveredInStore == DOMAIN posted_news \subseteq loaded \cup delivered

\* a cycle has had one send rejected and one accepted: the accepted item is
\* in the store, the rejected one is not
RejectedAndAccepted ==
    \E p \in Procs :
        /\ \E i \in Rejected(p) :
              Fingerprint(all_news[p][i]) \notin DOMAIN posted_news
        /\ \E i \in Sent(p) \ Rejected(p) :
              /\ Fingerprint(all_news[p][i]) \in DOMAIN posted_news
              /\ Fingerprint(all_news[p][i]) \notin loaded

\* C2: at most one cycle is active at any time: a /checknews that arrives
\* while the startup or a scheduled cycle is suspended never runs
\* interleaved with it.
AtMostOneActiveCycle == Cardinality({p \in Procs : InCycle(p)}) <= 1

\* C8: one cycle runs at startup, and every scheduled cycle starts only when
\* the sleep of the check interval has ended since the previous cycle.
ScheduledCycleAfterInterval ==
    (InCycle("sched") /\ kind["sched"] = "scheduled") => afterSleep

\* C10: whenever the primary request of a source ends with no candidate
\* (empty page, a status that is not 200, a network failure), the secondary
\* URL is requested once before the fetch returns.
SecondaryAfterEmptyPrimary ==
    (/\ fetched.source \in Sources
     /\ fetched.done
     /\ PrimaryItems(fetched.source, fetched.r1) = <<>>)
    => fetched.out.requests = <<PrimaryURL(fetched.source),
                                SecondaryURL(fetched.source)>>

\* C7: the scheduled loop never stops because of a failure: a cycle that
\* ends, by an exception too, is followed by the sleep of the interval and
\* by another cycle, so cycles start infinitely often.
ScheduledLoopNeverStops ==
    /\ []<>(pc["sched"] = "fetch_coindesk")
    /\ (Raised("sched") ~> InCycle("sched"))
    /\ [][(/\ InCycle("sched")
           /\ kind["sched"] = "scheduled"
           /\ ~InCycle("sched")')
          => pc'["sched"] = "sleep"]_vars
    /\ [][(pc["sched"] = "sleep" /\ pc'["sched"] # "sleep")
          => pc'["sched"] = "fetch_coindesk"]_vars

\* a scheduled cycle has ended in its exception handler, and the loop sleeps
SleepsAfterException ==
    /\ Raised("sched")
    /\ kind["sched"] = "scheduled"
    /\ pc["sched"] = "sleep"

\* the text json.dump writes for a store
FileOf(store) == [kind |-> "json", val |-> store]

\* C6, as stated: whenever mark_as_posted or a prune that removed something
\* returns, the file holds exactly the in-memory mapping.
FileHoldsStoreAfterMutation ==
    [][(posted_news' # posted_news /\ ~Restart)
       => file' = FileOf(posted_news')]_vars

\* C6, amended: whenever mark_as_posted or a prune that removed something
\* returns and its write did not fail, the file holds exactly the in-memory
\* mapping; as long as no write has failed the file and the mapping agree,
\* and a restart that finds them in agreement loads every entry recorded
\* before it.
FileHoldsStoreUnlessWriteFailed ==
    /\ [](faults = 0 => posted_news = LoadPostedNews(file))
    /\ [][(posted_news' # posted_news /\ ~Restart /\ faults' = faults)
          => file' = FileOf(posted_news')]_vars
    /\ [][(Restart /\ file = FileOf(posted_news))
          => (posted_news' = posted_news /\ loaded' = DOMAIN posted_news)]_vars

\* the process was started again and loaded an entry that no file held at
\* the first start: it was recorded by the process before
RecordedBeforeRestart ==
    /\ pc["sched"] = "boot"
    /\ \E k \in loaded :
          /\ k \in DOMAIN posted_news
          /\ \A st \in InitialStores(scenario) : k \notin DOMAIN st

(***************************************************************************)
(* A cycle with no other cycle beside it.                                  *)
(***************************************************************************)
KeyAt(p, i) == Fingerprint(all_news[p][i])

\* the for loop of the cycle of p has begun
LoopBegun(p) == kind[p] # "none" /\ idx[p] > 0

\* the positions the sink accepted
Accepted(p) == Sent(p) \ Rejected(p)

\* the fingerprints in the store when the loop of the cycle began: the
\* cycle adds those of the sends the sink accepted, and nothing is removed
StartKeys(p) == DOMAIN posted_news \ {KeyAt(p, i) : i \in Accepted(p)}

\* the eligible new candidates: the first position of each fingerprint
\* that was not in the store
New(p) ==
    {i \in DOMAIN all_news[p] :
        /\ KeyAt(p, i) \notin StartKeys(p)
        /\ \A j \in 1..(i - 1) : KeyAt(p, j) # KeyAt(p, i)}

\* the first m of them
FirstNew(p, m) == {i \in New(p) : Cardinality({j \in New(p) : j <= i}) <= m}

\* the last position the loop has passed
Reached(p) ==
    IF pc[p] = "send" THEN idx[p] - 1 ELSE Min(idx[p], Len(all_news[p]))

\* C4: in a cycle with n eligible new candidates in which every send
\* succeeds, exactly min(n, 5) items are delivered and marked, the first
\* min(n, 5) in the order of all_news; the others are neither sent nor
\* marked.
DeliveryCap ==
    \A p \in Procs :
        (NormalEnd(p) /\ Rejected(p) = {}) =>
            LET m == Min(Cardinality(New(p)), 5)
            IN /\ Sent(p) = FirstNew(p, m)
               /\ Len(attempts[p]) = m
               /\ posts_count[p] = m
               /\ \A i \in Sent(p) : KeyAt(p, i) \in DOMAIN posted_news
               /\ \A i \in New(p) \ Sent(p) :
                     KeyAt(p, i) \notin DOMAIN posted_news

\* a cycle with more than 5 new candidates has ended, every send accepted
CapLeavesCandidates ==
    \E p \in Procs :
        /\ NormalEnd(p)
        /\ Rejected(p) = {}
        /\ Cardinality(New(p)) > 5
        /\ Cardinality(Sent(p)) = 5

\* no fingerprint occurs twice in the candidates of the cycle
DistinctKeys(p) ==
    \A i, j \in DOMAIN all_news[p] : KeyAt(p, i) = KeyAt(p, j) => i = j

\* the positions of the candidates of a source
From(p, source) == {i \in DOMAIN all_news[p] : all_news[p][i].source = source}

\* each source yields one new and one already posted candidate
OneNewOnePosted(p) ==
    /\ DistinctKeys(p)
    /\ \A source \in Sources :
          /\ Cardinality(From(p, source)) = 2
          /\ Cardinality(From(p, source) \cap New(p)) = 1

\* C9, as stated: the messages a cycle sends are exactly the candidates
\* whose fingerprints are not in the store (here: every send accepted, no
\* fingerprint twice among the candidates).
SentAreAllNewCandidates ==
    \A p \in Procs :
        (NormalEnd(p) /\ Rejected(p) = {} /\ DistinctKeys(p)) =>
            Sent(p) = {i \in DOMAIN all_news[p] :
                          KeyAt(p, i) \notin StartKeys(p)}

\* C9, amended: the messages a cycle sends are, in the order of all_news
\* (CoinDesk before CoinTelegraph), exactly the candidates whose fingerprints
\* are not in the store when the loop reaches them, up to the fifth send the
\* sink accepts; with two sources of one new and one posted candidate each
\* and every send accepted, two messages are sent, CoinDesk's first, and the
\* store holds two fingerprints more (four, with the two posted ones).
SentAreNewCandidatesUpToCap ==
    \A p \in Procs :
        LoopBegun(p) =>
            /\ \A a, b \in DOMAIN attempts[p] :
                  a < b => attempts[p][a].i < attempts[p][b].i
            /\ \A i, j \in DOMAIN all_news[p] :
                  (i < j /\ all_news[p][i].source = "CoinTelegraph")
                      => all_news[p][j].source = "CoinTelegraph"
            /\ Sent(p) \cap skipped[p] = {}
            /\ Sent(p) \cup skipped[p] = 1..Reached(p)
            /\ \A i \in 1..Reached(p) :
                  i \in skipped[p] <=>
                      \/ KeyAt(p, i) \in StartKeys(p)
                      \/ \E j \in Accepted(p) :
                            j < i /\ KeyAt(p, j) = KeyAt(p, i)
            /\ posts_count[p] = Cardinality(Accepted(p))
            /\ posts_count[p] <= 5
            /\ (NormalEnd(p) /\ posts_count[p] < 5)
                  => Reached(p) = Len(all_news[p])
            /\ (NormalEnd(p) /\ Rejected(p) = {} /\ OneNewOnePosted(p)) =>
                  /\ Len(attempts[p]) = 2
                  /\ all_news[p][attempts[p][1].i].source = "CoinDesk"
                  /\ all_news[p][attempts[p][2].i].source = "CoinTelegraph"
                  /\ Cardinality(DOMAIN posted_news)
                        = Cardinality(StartKeys(p)) + 2

\* the cycle of the example has ended: two posted before, four now
TwoSentOfFour ==
    \E p \in Procs :
        /\ NormalEnd(p)
        /\ Rejected(p) = {}
        /\ OneNewOnePosted(p)
        /\ Cardinality(Sent(p)) = 2
        /\ Cardinality(DOMAIN posted_news) = 4

\* the cycle of p follows a cycle that was offered the same candidates
SameListings(p) == prev[p].ran /\ prev[p].news = all_news[p]

\* C3, as stated: the second of two cycles in succession over unchanged
\* listings delivers nothing (here: the first ended with no send rejected,
\* and the pruning of the second removed nothing).
SecondRunDeliversNothing ==
    \A p \in Procs :
        (/\ NormalEnd(p)
         /\ SameListings(p)
         /\ prev[p].normal
         /\ prev[p].failed = {}
         /\ pruned[p] = {})
        => Sent(p) = {}

\* C3, amended: the second of two cycles in succession over unchanged
\* listings delivers nothing when every candidate was in the store after the
\* first and the pruning of the second removed none of them; a cycle with at
\* most 5 new candidates and no send rejected leaves every candidate in the
\* store.
SecondRunDeliversNothingWhenSettled ==
    \A p \in Procs :
        /\ (/\ LoopBegun(p)
            /\ SameListings(p)
            /\ prev[p].settled
            /\ \A i \in DOMAIN all_news[p] : KeyAt(p, i) \notin pruned[p])
           => (Sent(p) = {} /\ posts_count[p] = 0 /\ pc[p] # "send")
        /\ (NormalEnd(p) /\ Rejected(p) = {} /\ Cardinality(New(p)) <= 5)
           => \A i \in DOMAIN all_news[p] : KeyAt(p, i) \in DOMAIN posted_news

\* the second cycle has ended without a send; the first had delivered
SecondRunIdle ==
    \E p \in Procs :
        /\ NormalEnd(p)
        /\ SameListings(p)
        /\ prev[p].settled
        /\ Sent(p) = {}
        /\ \E i \in DOMAIN all_news[p] : KeyAt(p, i) \in delivered

\* the cycle of p sends, or has sent with success before, the candidate at i
Retried(p, i) ==
    \/ i \in Sent(p)
    \/ \E j \in Accepted(p) : j < i /\ KeyAt(p, j) = KeyAt(p, i)

\* C5, as stated: an item whose send was rejected is attempted again in the
\* next cycle if the listing still offers it (here: an item the cycle left
\* unmarked).
RejectedIsSentNextCycle ==
    \A p \in Procs :
        (NormalEnd(p) /\ prev[p].ran) =>
            \A i \in DOMAIN all_news[p] :
                KeyAt(p, i) \in prev[p].failed => Retried(p, i)

\* C5, amended: a rejected send leaves the store and the file as they were
\* and the loop goes on with the later candidates; the item stays unmarked
\* unless the listing holds it a second time and that send is accepted, and
\* the next cycle sends an item left unmarked again if the listing still
\* offers it and fewer than 5 sends of that cycle were accepted before the
\* loop reaches it.
RejectedIsSentNextCycleUnlessCapped ==
    /\ [][\A p \in Procs :
            (/\ pc[p] = "send"
             /\ pc'[p] = "delay"
             /\ posts_count'[p] = posts_count[p])
            => (posted_news' = posted_news /\ file' = file)]_vars
    /\ [](\A p \in Procs :
            NormalEnd(p) =>
                /\ posts_count[p] < 5 => Reached(p) = Len(all_news[p])
                /\ Sent(p) \cup skipped[p] = 1..Reached(p)
                /\ \A i \in Rejected(p) :
                      \/ KeyAt(p, i) \notin DOMAIN posted_news
                      \/ \E j \in Accepted(p) : KeyAt(p, j) = KeyAt(p, i)
                /\ \A i \in 1..Reached(p) :
                      KeyAt(p, i) \in prev[p].failed => Retried(p, i))

\* an item rejected in the cycle before has been sent again, and accepted
RejectedThenAccepted ==
    \E p \in Procs :
        /\ NormalEnd(p)
        /\ \E i \in Accepted(p) : KeyAt(p, i) \in prev[p].failed

\* the file holds a fingerprint-keyed mapping
HoldsMapping(f) == f.kind = "json" /\ IsMapping(f.val)

\* C11: loading the store never fails startup: when the file is missing,
\* cannot be read or holds no mapping, the process runs, it starts from an
\* empty store, and what it delivers from then on is recorded.
LoadNeverFailsStartup ==
    /\ pc["sched"] # "crashed"
    /\ (pc["sched"] = "boot" /\ ~HoldsMapping(file))
          => posted_news = EmptyStore
    /\ IsMapping(posted_news) /\ delivered \subseteq DOMAIN posted_news

\* a record with its two fields and a timestamp fromisoformat reads
WellFormed(data) ==
    /\ "nonrecord" \notin DOMAIN data
    /\ {"title", "timestamp"} \subseteq DOMAIN data
    /\ ParseRaises(data.timestamp) = "none"

\* C12: after a pruning pass the store holds no entry that is no record,
\* lacks title or timestamp, or has a timestamp that cannot be parsed,
\* whatever its JSON value, and no expired entry either.
PruneRemovesMalformed ==
    pc["sched"] = "pruned" =>
        \A k \in DOMAIN posted_news :
            /\ WellFormed(posted_news[k])
            /\ now - FromIsoFormat(posted_news[k].timestamp) <= RetentionDays

\* the age of an entry with a timestamp fromisoformat reads
Age(data) == now - FromIsoFormat(data.timestamp)

\* C13: clean_old_posts removes every well-formed entry posted more than 7
\* days ago and keeps every well-formed entry posted at most 7 days ago.
RetentionExact ==
    pc["sched"] = "pruned" =>
        \A e \in PruneEntries :
            (e.key \in loaded /\ WellFormed(e.val)) =>
                (e.key \in DOMAIN posted_news <=> Age(e.val) <= 7)

\* C14: cancelling the task of the loop at a fetch, a send, the delay or the
\* sleep ends the loop with no further send or cycle, and leaves no entry in
\* the store or the file without a send the sink accepted.
ShutdownStopsLoop ==
    /\ [](cancelled => pc["sched"] = "cancelled")
    /\ [][cancelled => UNCHANGED <<pc, attempts, posted_news, file>>]_vars
    /\ [](cancelled =>
            /\ DOMAIN posted_news \subseteq loaded \cup delivered
            /\ DOMAIN LoadPostedNews(file) \subseteq loaded \cup delivered)

\* the task was cancelled at a send, after a send the sink accepted: the
\* item it was sending is not in the store
CancelledAtSend ==
    /\ cancelled
    /\ Accepted("sched") # {}
    /\ idx["sched"] \in DOMAIN all_news["sched"] \ Sent("sched")
    /\ KeyAt("sched", idx["sched"]) \notin DOMAIN posted_news

\* C15: a failure or an empty result of one source prevents neither the
\* fetch of the other source in the same cycle nor the delivery of the other
\* source's new candidates: CoinTelegraph is fetched whatever CoinDesk
\* returned, the loop is offered what each fetch returned, and it sends
\* every new candidate unless 5 sends were accepted.
SourcesIndependent ==
    \A p \in Procs :
        /\ pc[p] = "fetch_cointelegraph"
              => all_news[p] = ValidItems(returned[p].coindesk)
        /\ LoopBegun(p)
              => all_news[p] = ValidItems(returned[p].coindesk)
                               \o ValidItems(returned[p].cointelegraph)
        /\ NormalEnd(p)
              => \A i \in New(p) : i \in Sent(p) \/ posts_count[p] = 5

\* CoinDesk returned nothing, on pages that hold articles, and the new
\* candidates of CoinTelegraph were sent and accepted
OneSourceFailedOtherDelivered ==
    \E p \in Procs :
        /\ NormalEnd(p)
        /\ returned[p].coindesk = <<>>
        /\ New(p) # {}
        /\ New(p) \subseteq Accepted(p)

SamePair(a, b) == a.title = b.title /\ a.link = b.link

\* C16: two records get the same key if and only if they have the same
\* (title, link) pair: once mark_as_posted has recorded one record,
\* is_news_posted answers True for another record exactly when the two
\* agree in title and in link, whatever their source and summary.
SameKeyIffSamePair ==
    pc["sched"] = "marked"
        => LET first == all_news["sched"][1]
               second == all_news["sched"][2]
           IN IsNewsPosted(posted_news, second) <=> SamePair(first, second)

MinTitle(mode) == IF mode = "listing" THEN MinTitleArticle ELSE MinTitleLink
RejectedCandidate == fetched.done /\ fetched.out.items = <<>>

\* C17: a candidate is rejected exactly when its title is absent, its link
\* is absent, or its title is shorter than the minimum of the mode: 10 in
\* the article loop, 15 in the loop over the links; a title of exactly the
\* minimum length, with a link, is accepted.
RejectedIffShorterThanMinimum ==
    fetched.done
        => (RejectedCandidate
              <=> \/ Strip(fetched.text) = ""
                  \/ fetched.href = ""
                  \/ Len(Strip(fetched.text)) < MinTitle(fetched.mode))

RECURSIVE Flatten(_)
Flatten(lists) ==
    IF lists = <<>> THEN <<>> ELSE Head(lists) \o Flatten(Tail(lists))

\* the anchors of a document that match the topical link pattern
TopicalAnchors(page) == page.anchors \o Flatten(page.containers)
TagPath(source) == IF source = "CoinDesk" THEN "/tag/" ELSE "/tags/"
Base(source) ==
    IF source = "CoinDesk" THEN CoinDeskBase ELSE CoinTelegraphBase
Harvest(source, page) ==
    LinkItems(TopicalAnchors(page), TagPath(source), Base(source), source)

\* C18: on a tag page where no element matches the container selectors and
\* that holds topical anchors anywhere in the document, the fetch of either
\* source returns the candidates derived from these anchors, none with a
\* blocklisted phrase in its title; on a page where a container matches,
\* the links contribute no candidate.
HarvestFallback ==
    (fetched.source \in Sources /\ fetched.done /\ fetched.r1.kind = "ok")
    => LET source == fetched.source
           page == fetched.r1.page
           items == fetched.out.items
       IN /\ (page.articles = <<>> /\ Harvest(source, page) # <<>>)
                => /\ items = Harvest(source, page)
                   /\ \A i \in DOMAIN items :
                         ~\E s \in SkipPhrases :
                             Contains(Lower(items[i].title), s)
          /\ (page.articles # <<>>
               /\ fetched.out.requests = <<PrimaryURL(source)>>)
                => items = ArticleItems(page.articles, Base(source), source)

\* C19: within a cycle the sends are sequential and spaced: a send that
\* ends, accepted or not, is followed by the delay; the next send of the
\* cycle starts only when the delay is over; and no send starts while one
\* is in progress.
SendsSequentialAndSpaced ==
    [][\A p \in Procs :
          /\ Len(attempts'[p]) > Len(attempts[p])
                => pc[p] = "send" /\ pc'[p] = "delay"
          /\ (pc'[p] = "send" /\ pc[p] # "send" /\ attempts[p] # <<>>)
                => pc[p] = "delay"
          /\ (pc[p] = "send" /\ pc'[p] = "send")
                => attempts'[p] = attempts[p] /\ idx'[p] = idx[p]]_vars

\* the second send of a cycle is in progress, after a first that failed
SecondSendAfterFailedFirst ==
    \E p \in Procs :
        /\ pc[p] = "send"
        /\ Len(attempts[p]) = 1
        /\ ~attempts[p][1].ok

\* the listings offer x to the cycle of the scheduled loop
Offered(x) ==
    /\ LoopBegun("sched")
    /\ \E i \in DOMAIN all_news["sched"] : KeyAt("sched", i) = x

\* the cycle has ended and has left x, a new candidate, undelivered: the
\* cap was reached before it, or its send failed
Deferred(x) ==
    /\ NormalEnd("sched")
    /\ \E i \in New("sched") \ Accepted("sched") : KeyAt("sched", i) = x

Delivered(x) == x \in delivered /\ x \in DOMAIN posted_news

\* C20: a new candidate deferred by the cap or by a failed send stays
\* unmarked, and if the listings keep offering it and the sink accepts it,
\* it is eventually delivered and marked in a later cycle, even while
\* candidates ahead of it keep failing.
DeferredIsDelivered ==
    \A x \in ManyKeys :
        /\ [](Deferred(x) => x \notin DOMAIN posted_news)
        /\ (x \notin Refused("refusing") /\ []<>Offered(x))
              => [](Deferred(x) => <>Delivered(x))

\* five candidates ahead were refused in this cycle, and a candidate whose
\* send failed in the cycle before has been delivered behind them
DeliveredBehindFailures ==
    /\ Cardinality(Rejected("sched")) >= MaxPostsPerCycle
    /\ \E i \in Accepted("sched") :
          /\ \A j \in Rejected("sched") : j < i
          /\ KeyAt("sched", i) \in prev["sched"].failed
          /\ Delivered(KeyAt("sched", i))

\* C21: a write of the file that fails in mark_as_posted or in
\* clean_old_posts does not propagate and the mapping keeps the mutation:
\* the cycle goes on to the delay (to the fetch, after the prune), the loop
\* sends no item whose fingerprint is in the mapping, and the cycle ends
\* only when every new candidate was sent or 5 sends were accepted.
WriteFailureKeepsMutation ==
    /\ [][\A p \in Procs :
            /\ (/\ pc[p] = "send"
                /\ Len(attempts'[p]) > Len(attempts[p])
                /\ attempts'[p][Len(attempts'[p])].ok
                /\ faults' # faults)
                  => /\ posted_news' = MarkAsPosted(posted_news,
                                           all_news[p][idx[p]], now)
                     /\ pc'[p] = "delay"
            /\ (~InCycle(p) /\ InCycle(p)' /\ faults' # faults)
                  => /\ posted_news' = CleanOldPosts(posted_news, now)
                     /\ pc'[p] = "fetch_coindesk"]_vars
    /\ [](\A p \in Procs :
            /\ pc[p] = "send"
                  => ~IsNewsPosted(posted_news, all_news[p][idx[p]])
            /\ NormalEnd(p)
                  => \A i \in New(p) :
                        i \in Sent(p) \/ CapReached(posts_count[p]))

\* the write that followed an accepted send failed, and the cycle is
\* sending its next candidate: the item is in the mapping, not in the file
NextSendAfterFailedWrite ==
    \E p \in Procs :
        /\ pc[p] = "send"
        /\ \E i \in Accepted(p) :
              /\ i < idx[p]
              /\ KeyAt(p, i) \in DOMAIN posted_news
              /\ KeyAt(p, i) \notin DOMAIN LoadPostedNews(file)

SourceCap(mode) == IF mode = "listing" THEN ArticleLimit ELSE LinkLimit

\* C22: from one tag page a source contributes at most 10 candidates by
\* the article loop or at most 15 by the loop over the links, however many
\* containers or anchors the page holds, and no anchor gives more than one
\* candidate.
CandidatesCapped ==
    fetched.done
        => LET items == fetched.out.items
           IN /\ Len(items) <= SourceCap(fetched.mode)
              /\ \A i, j \in DOMAIN items :
                    items[i].link = items[j].link => i = j

\* the step is a send of p that the sink accepts
AcceptedSend(p) ==
    /\ pc[p] = "send"
    /\ Len(attempts'[p]) > Len(attempts[p])
    /\ attempts'[p][Len(attempts'[p])].ok

\* C23: no (title, link) pair is sent with success twice while its entry
\* is in the store, under every interleaving of the startup cycle, the
\* scheduled cycles and the checks on demand, and when the pair occurs
\* twice among the candidates of one cycle: the sink accepts no item whose
\* fingerprint the store holds since an accepted send of this run.
DeliveredAtMostOnce ==
    [][\A p \in Procs :
          AcceptedSend(p)
              => KeyAt(p, idx[p]) \notin delivered \cap DOMAIN posted_news]_vars

\* C24: in one cycle at most 5 messages are handed to the sink, the sends
\* that fail counted with those that succeed.
AtMostFiveSends ==
    \A p \in Procs : Len(attempts[p]) <= MaxPostsPerCycle

\* C25: a crash at any instant, in the middle of the rewrite of the file
\* too, loses no entry that an earlier completed write had committed: the
\* store loaded at the restart holds every entry of the file as the last
\* completed write left it.
CommittedSurvivesCrash ==
    [][(Restart \/ CrashWhileSaving)
          => DOMAIN LoadPostedNews(file) \subseteq DOMAIN posted_news']_vars

====
